---- MODULE Spec2Model ----
(***************************************************************************)
(* Model of easybuild/framework/easystack.py: the EasyStack parser         *)
(* (EasyStackParser.parse), the EasyStack methods and parse_easystack.     *)
(*                                                                         *)
(* Python values are records [type, text]: `type` is the Python type name  *)
(* and `text` the characters of str(value), one string per character.      *)
(* Lists carry `items`, ordered mappings carry `pairs` (key/value records  *)
(* in declaration order); mappings that the code only reads by a fixed     *)
(* key (.get / []) are TLA+ functions from key names to values.            *)
(***************************************************************************)
EXTENDS Integers, Sequences, FiniteSets, TLC

(***************************************************************************)
(* Python values                                                           *)
(***************************************************************************)
Py(t, chars) == [type |-> t, text |-> chars]
PyFalse == Py("bool", <<"False">>)
PyTrue == Py("bool", <<"True">>)
PyNone == Py("NoneType", <<"None">>)
PyStr(chars) == Py("str", chars)
PyFloat(chars) == Py("float", chars)
PyInt(chars) == Py("int", chars)
PyList(xs) == [type |-> "list", items |-> xs]
PyDict(ps) == [type |-> "dict", pairs |-> ps]

\* a local variable that no assignment has bound yet
Unbound == Py("unbound", <<>>)

\* str(v) of a scalar
Str(v) == PyStr(v.text)

\* bool(v)
Truthy(v) ==
    CASE v.type = "bool" -> v = PyTrue
      [] v.type = "NoneType" -> FALSE
      [] v.type = "str" -> v.text # <<>>
      [] v.type = "list" -> v.items # <<>>
      [] v.type = "dict" -> v.pairs # <<>>
      [] v.type = "int" -> v.text # <<"0">>
      [] OTHER -> TRUE

\* a or b
Or(a, b) == IF Truthy(a) THEN a ELSE b

\* v != False
NeFalse(v) == ~(v = PyFalse \/ v = PyInt(<<"0">>))

\* d.get(key, default) on a mapping read by key name
Get(d, key, default) == IF key \in DOMAIN d THEN d[key] ELSE default

\* position of key k in an ordered mapping, 0 when d[k] raises KeyError
RECURSIVE LookupFrom(_, _, _)
LookupFrom(pairs, k, i) ==
    IF i > Len(pairs) THEN 0
    ELSE IF pairs[i].key = k THEN i
    ELSE LookupFrom(pairs, k, i + 1)

Lookup(pairs, k) == LookupFrom(pairs, k, 1)

\* c in chars
HasChar(chars, c) == \E i \in 1..Len(chars) : chars[i] = c

\* '*' in str(v): str() of a container is built from the repr of its parts
RECURSIVE HasAsterisk(_)
HasAsterisk(v) ==
    CASE v.type = "list" -> \E i \in 1..Len(v.items) : HasAsterisk(v.items[i])
      [] v.type = "dict" ->
            \E i \in 1..Len(v.pairs) :
                \/ HasAsterisk(v.pairs[i].key)
                \/ LET spec == v.pairs[i].value
                   IN IF spec = PyNone THEN FALSE
                      ELSE \E k \in DOMAIN spec : HasAsterisk(spec[k])
      [] OTHER -> HasChar(v.text, "*")

(***************************************************************************)
(* str.split                                                               *)
(***************************************************************************)
\* chars.split(sep, maxsplit): at most maxsplit cuts, leftmost first
RECURSIVE SplitSep(_, _, _, _)
SplitSep(chars, sep, maxsplit, cur) ==
    IF chars = <<>> THEN <<cur>>
    ELSE IF Head(chars) = sep /\ maxsplit > 0
         THEN <<cur>> \o SplitSep(Tail(chars), sep, maxsplit - 1, <<>>)
         ELSE SplitSep(Tail(chars), sep, maxsplit, Append(cur, Head(chars)))

\* the split with its maxsplit argument left out
split_every(chars, sep, maxsplit) == SplitSep(chars, sep, Len(chars), <<>>)

split(chars, sep, maxsplit) == SplitSep(chars, sep, maxsplit, <<>>)

\* chars.split(): runs of whitespace separate, no empty tokens
RECURSIVE SplitWs(_, _)
SplitWs(chars, cur) ==
    IF chars = <<>> THEN (IF cur = <<>> THEN <<>> ELSE <<cur>>)
    ELSE IF Head(chars) = " "
         THEN (IF cur = <<>> THEN <<>> ELSE <<cur>>) \o SplitWs(Tail(chars), <<>>)
         ELSE SplitWs(Tail(chars), Append(cur, Head(chars)))

\* chars.split(' ') in place of chars.split(): every space cuts
split_at_spaces(chars) == SplitSep(chars, " ", Len(chars), <<>>)

split_whitespace(chars) == SplitWs(chars, <<>>)

\* a sequence mapped through PyStr
StrItems(tokens) == [i \in 1..Len(tokens) |-> PyStr(tokens[i])]

(***************************************************************************)
(* SoftwareSpecs                                                           *)
(***************************************************************************)
SoftwareSpecs(name, version, versionsuffix, toolchain_version, toolchain_name, easybuild_version, robot, parallel, from_pr, include_labels, exclude_labels) ==
    [name |-> name, version |-> version, toolchain_version |-> toolchain_version,
     toolchain_name |-> toolchain_name, versionsuffix |-> versionsuffix,
     easybuild_version |-> easybuild_version, robot |-> robot, parallel |-> parallel,
     from_pr |-> from_pr, include_labels |-> include_labels,
     exclude_labels |-> exclude_labels]

\* software_list.insert(0, sw) in place of append
insert_first(list, sw) == <<sw>> \o list

\* software_list.append(sw)
append(list, sw) == Append(list, sw)

(***************************************************************************)
(* EasyStackParser.parse                                                   *)
(***************************************************************************)
NoExc == "none"

\* the local variables of parse before the loop over software
ParseLocals(easystack_raw) ==
    [easybuild_version |-> Get(easystack_raw, "easybuild_version", PyFalse),
     robot |-> Get(easystack_raw, "robot", PyFalse),
     parallel |-> Get(easystack_raw, "parallel", PyFalse),
     from_pr |-> Get(easystack_raw, "from_pr", PyFalse),
     include_labels |-> Unbound,
     exclude_labels |-> Unbound,
     versionsuffix |-> Unbound,
     versions_list |-> Unbound,
     print_only |-> Unbound,
     software_list |-> <<>>,
     exc |-> NoExc,
     exc_name |-> Unbound]

\* the EasyBuildError messages that are formatted with the software name
NamesSoftware(exc) ==
    exc \in {"EasyBuildError: toolchains not defined", "EasyBuildError: too many parts",
             "EasyBuildError: error interpreting the data",
             "EasyBuildError: contain asterisk"}

\* the locals as the exception leaves them, with the software its message names
Raise(l, exc, name) ==
    [l EXCEPT !.exc = exc, !.exc_name = IF NamesSoftware(exc) THEN name ELSE Unbound]

\* the per-version options of a non-null version entry
VersionOverrides(l, version_spec) ==
    [l EXCEPT !.versionsuffix = Get(version_spec, "versionsuffix", PyFalse),
              !.robot = Get(version_spec, "robot", l.robot),
              !.parallel = Get(version_spec, "parallel", l.parallel),
              !.from_pr = Get(version_spec, "from_pr", l.from_pr),
              !.include_labels = Get(version_spec, "include-labels", l.include_labels),
              !.exclude_labels = Get(version_spec, "exclude-labels", l.exclude_labels)]

\* for version in versions (mapping shape)
RECURSIVE DictVersions(_, _, _, _, _, _)
DictVersions(l, name, toolchain_name, toolchain_version, pairs, i) ==
    IF i > Len(pairs) THEN l
    ELSE LET version == pairs[i].key
             l1 == IF pairs[i].value # PyNone
                   THEN VersionOverrides(l, pairs[i].value)
                   ELSE [l EXCEPT !.versionsuffix = PyFalse]
             sw == SoftwareSpecs(name, version, l1.versionsuffix, toolchain_version,
                                 toolchain_name, l1.easybuild_version, l1.robot,
                                 l1.parallel, l1.from_pr, l1.include_labels,
                                 l1.exclude_labels)
         IN DictVersions([l1 EXCEPT !.software_list = append(@, sw)],
                         name, toolchain_name, toolchain_version, pairs, i + 1)

\* versions_list after the isinstance chain; no branch taken leaves it as it was
VersionsList(l, versions) ==
    CASE versions.type = "list" -> versions
      [] versions.type = "str" -> PyList(StrItems(split_whitespace(versions.text)))
      [] versions.type = "float" -> PyList(<<Str(versions)>>)
      [] OTHER -> l.versions_list

\* the options as left by "x = x or False"
OrFalse(l) ==
    [l EXCEPT !.versionsuffix = PyFalse,
              !.easybuild_version = Or(@, PyFalse),
              !.robot = Or(@, PyFalse),
              !.parallel = Or(@, PyFalse),
              !.from_pr = Or(@, PyFalse),
              !.include_labels = Or(@, PyFalse),
              !.exclude_labels = Or(@, PyFalse)]

\* print_only is assigned only when one of the four options differs from False
PrintOnly(l) ==
    IF NeFalse(l.easybuild_version) \/ NeFalse(l.robot) \/ NeFalse(l.parallel)
       \/ NeFalse(l.from_pr)
    THEN [l EXCEPT !.print_only = PyTrue]
    ELSE l

\* for version in versions_list
RECURSIVE ListVersions(_, _, _, _, _, _)
ListVersions(l, name, toolchain_name, toolchain_version, items, i) ==
    IF i > Len(items) THEN l
    ELSE LET sw == SoftwareSpecs(name, items[i], l.versionsuffix, toolchain_version,
                                 toolchain_name, l.easybuild_version, l.robot,
                                 l.parallel, l.from_pr, l.include_labels,
                                 l.exclude_labels)
         IN ListVersions([l EXCEPT !.software_list = append(@, sw)],
                         name, toolchain_name, toolchain_version, items, i + 1)

\* the shapes other than the mapping
NonDictVersions(l, name, toolchain_name, toolchain_version, versions) ==
    LET l1 == [l EXCEPT !.versions_list = VersionsList(l, versions)]
        l2 == PrintOnly(OrFalse(l1))
    IN IF l2.versions_list = Unbound
       THEN Raise(l2, "UnboundLocalError", name)
       ELSE ListVersions(l2, name, toolchain_name, toolchain_version,
                         l2.versions_list.items, 1)

\* toolchain.split('-', 1) and the unpacking of its parts
ToolchainParts(toolchain) ==
    LET toolchain_parts == split(toolchain.text, "-", 1)
    IN IF Len(toolchain_parts) = 2
       THEN [exc |-> NoExc, toolchain_name |-> PyStr(toolchain_parts[1]),
             toolchain_version |-> PyStr(toolchain_parts[2])]
       ELSE IF Len(toolchain_parts) = 1
       THEN [exc |-> NoExc, toolchain_name |-> toolchain,
             toolchain_version |-> PyStr(<<>>)]
       ELSE [exc |-> "EasyBuildError: too many parts", toolchain_name |-> Unbound,
             toolchain_version |-> Unbound]

\* versions = toolchains[toolchain]['versions']
ToolchainVersions(toolchains, toolchain) ==
    LET at == Lookup(toolchains, toolchain)
    IN IF at = 0 THEN [exc |-> "KeyError", body |-> <<>>]
       ELSE IF toolchains[at].value = PyNone
       THEN [exc |-> "EasyBuildError: error interpreting the data", body |-> <<>>]
       ELSE IF "versions" \notin DOMAIN toolchains[at].value
       THEN [exc |-> "KeyError", body |-> <<>>]
       ELSE [exc |-> NoExc, body |-> toolchains[at].value]

\* the body of "for toolchain in toolchains"
Toolchain(l, name, toolchains, key) ==
    LET toolchain == Str(key)
        parts == ToolchainParts(toolchain)
        found == ToolchainVersions(toolchains, toolchain)
        versions == found.body["versions"]
        l1 == [l EXCEPT !.include_labels = Get(found.body, "include_labels", PyFalse),
                        !.exclude_labels = Get(found.body, "exclude_labels", PyFalse)]
    IN IF parts.exc # NoExc THEN Raise(l, parts.exc, name)
       ELSE IF found.exc # NoExc THEN Raise(l, found.exc, name)
       ELSE IF HasAsterisk(versions)
       THEN Raise(l, "EasyBuildError: contain asterisk", name)
       ELSE IF versions.type = "dict"
       THEN DictVersions(l1, name, parts.toolchain_name, parts.toolchain_version,
                         versions.pairs, 1)
       ELSE NonDictVersions(l1, name, parts.toolchain_name, parts.toolchain_version,
                            versions)

RECURSIVE Toolchains(_, _, _, _)
Toolchains(l, name, toolchains, j) ==
    IF j > Len(toolchains) \/ l.exc # NoExc THEN l
    ELSE Toolchains(Toolchain(l, name, toolchains, toolchains[j].key),
                    name, toolchains, j + 1)

\* toolchains = software[name]['toolchains']
SoftwareToolchains(software, name) ==
    LET at == Lookup(software, name)
    IN IF at = 0
       THEN [exc |-> "EasyBuildError: toolchains not defined", toolchains |-> <<>>]
       ELSE IF software[at].value = PyNone
       THEN [exc |-> "TypeError", toolchains |-> <<>>]
       ELSE IF "toolchains" \notin DOMAIN software[at].value
       THEN [exc |-> "EasyBuildError: toolchains not defined", toolchains |-> <<>>]
       ELSE [exc |-> NoExc, toolchains |-> software[at].value["toolchains"]]

\* for name in software
RECURSIVE Software(_, _, _)
Software(l, software, k) ==
    IF k > Len(software) \/ l.exc # NoExc THEN l
    ELSE LET name == Str(software[k].key)
             found == SoftwareToolchains(software, name)
         IN IF found.exc # NoExc THEN Raise(l, found.exc, name)
            ELSE Software(Toolchains(l, name, found.toolchains.pairs, 1),
                          software, k + 1)

\* parse(filepath) on the loaded YAML tree: the locals at the return statement,
\* or at the statement that raised
parse(easystack_raw) ==
    IF "software" \notin DOMAIN easystack_raw
    THEN Raise(ParseLocals(easystack_raw), "EasyBuildError: no 'software' key found",
               Unbound)
    ELSE LET l == Software(ParseLocals(easystack_raw), easystack_raw["software"].pairs, 1)
         IN IF l.exc = NoExc /\ l.print_only = Unbound
            THEN Raise(l, "UnboundLocalError", Unbound)
            ELSE l

(***************************************************************************)
(* EasyStack methods                                                       *)
(***************************************************************************)
\* det_full_ec_version(ec): the text built from version, toolchain and suffix
det_full_ec_version(toolchain_name, toolchain_version, version, versionsuffix) ==
    Str(version).text \o <<"-">> \o Str(toolchain_name).text \o <<"-">>
        \o Str(toolchain_version).text \o Str(versionsuffix).text

\* '%s-%s.eb' % (sw.name, full_ec_version)
ec_filename(sw) ==
    PyStr(Str(sw.name).text \o <<"-">>
          \o det_full_ec_version(sw.toolchain_name, sw.toolchain_version, sw.version,
                                 Or(sw.versionsuffix, PyStr(<<>>)))
          \o <<".eb">>)

\* the list compose_ec_filenames returns
compose_ec_filenames(list) == [i \in 1..Len(list) |-> ec_filename(list[i])]

\* '--flag=%s' % value
Suffix(flag, value) == PyStr(<<flag>> \o Str(value).text)

\* the suffix locals after the four "if sw.x:" statements of one iteration
Suffixes(loc, sw) ==
    [robot_suffix |->
        IF Truthy(sw.robot) THEN Suffix("--robot=", sw.robot) ELSE loc.robot_suffix,
     parallel_suffix |->
        IF Truthy(sw.parallel) THEN Suffix("--parallel=", sw.parallel)
        ELSE loc.parallel_suffix,
     easybuild_version_suffix |->
        IF Truthy(sw.easybuild_version)
        THEN Suffix("--easybuild_version=", sw.easybuild_version)
        ELSE loc.easybuild_version_suffix,
     from_pr_suffix |->
        IF Truthy(sw.from_pr) THEN Suffix("--from_pr=", sw.from_pr)
        ELSE loc.from_pr_suffix]

\* '%s %s %s %s %s' % (...): reading an unbound local raises
RECURSIVE PrintLoop(_, _, _, _)
PrintLoop(list, i, loc, out) ==
    IF i > Len(list) THEN [exc |-> NoExc, out |-> out]
    ELSE LET loc1 == Suffixes(loc, list[i])
             full_command == [ec_filename |-> ec_filename(list[i]),
                              robot |-> loc1.robot_suffix,
                              parallel |-> loc1.parallel_suffix,
                              easybuild_version |-> loc1.easybuild_version_suffix,
                              from_pr |-> loc1.from_pr_suffix]
         IN IF \E f \in DOMAIN loc1 : loc1[f] = Unbound
            THEN [exc |-> "UnboundLocalError", out |-> out]
            ELSE PrintLoop(list, i + 1, loc1, Append(out, full_command))

\* the lines print_full_commands prints, and the exception that ended it
print_full_commands(list) ==
    PrintLoop(list, 1,
              [robot_suffix |-> Unbound, parallel_suffix |-> Unbound,
               easybuild_version_suffix |-> Unbound, from_pr_suffix |-> Unbound],
              <<>>)

\* sw[key]: SoftwareSpecs defines no __getitem__, so the subscript raises TypeError
subscript(sw, key) == [exc |-> "TypeError", value |-> Unbound]

\* iter(v)
Iter(v) ==
    CASE v.type = "list" -> [exc |-> NoExc, items |-> v.items]
      [] v.type = "str" -> [exc |-> NoExc, items |-> [i \in 1..Len(v.text) |-> PyStr(<<v.text[i]>>)]]
      [] OTHER -> [exc |-> "TypeError", items |-> <<>>]

\* list.remove(x): drops the first element equal to x, ValueError when there is none
RECURSIVE IndexFrom(_, _, _)
IndexFrom(list, x, i) ==
    IF i > Len(list) THEN 0
    ELSE IF list[i] = x THEN i
    ELSE IndexFrom(list, x, i + 1)

remove(list, x) ==
    LET at == IndexFrom(list, x, 1)
    IN IF at = 0 THEN [exc |-> "ValueError", list |-> list]
       ELSE [exc |-> NoExc,
             list |-> SubSeq(list, 1, at - 1) \o SubSeq(list, at + 1, Len(list))]

\* the inner loop over the labels of one sw: remove sw at each label that is
\* (exclude) or is not (include) among the provided labels
RECURSIVE LabelLoop(_, _, _, _, _, _)
LabelLoop(list, sw, labels, provided, remove_if_in, n) ==
    IF n > Len(labels) THEN [exc |-> NoExc, list |-> list]
    ELSE IF (labels[n] \in provided) = remove_if_in
    THEN LET r == remove(list, sw)
         IN IF r.exc # NoExc THEN r
            ELSE LabelLoop(r.list, sw, labels, provided, remove_if_in, n + 1)
    ELSE LabelLoop(list, sw, labels, provided, remove_if_in, n + 1)

\* the outer loop: the list iterator reads position i of the list as it is now
RECURSIVE SoftwareLoop(_, _, _, _, _)
SoftwareLoop(list, key, provided, remove_if_in, i) ==
    IF i > Len(list) THEN [exc |-> NoExc, list |-> list]
    ELSE LET got == subscript(list[i], key)
             it == Iter(got.value)
             r == LabelLoop(list, list[i], it.items, provided, remove_if_in, 1)
         IN IF got.exc # NoExc THEN [exc |-> got.exc, list |-> list]
            ELSE IF it.exc # NoExc THEN [exc |-> it.exc, list |-> list]
            ELSE IF r.exc # NoExc THEN r
            ELSE SoftwareLoop(r.list, key, provided, remove_if_in, i + 1)

process_include_labels(list, provided_include_labels) ==
    SoftwareLoop(list, "include_labels", provided_include_labels, FALSE, 1)

process_exclude_labels(list, provided_exclude_labels) ==
    SoftwareLoop(list, "exclude_labels", provided_exclude_labels, TRUE, 1)

(***************************************************************************)
(* Inputs: loaded YAML trees, command-line labels, request lists           *)
(***************************************************************************)
\* toolchains in one manifest, over all its software entries
MaxToolchains == 2
\* characters of a versions string
MaxStrLen == 4
\* elements of a versions list
MaxListLen == 2
\* characters of a toolchain key
MaxKeyLen == 3
\* requests of a directly built EasyStack
MaxRequests == 2

SeqsUpTo(S, n) == UNION {[1..k -> S] : k \in 0..n}

Label(c) == PyStr(<<c>>)
LabelList(cs) == PyList([i \in 1..Len(cs) |-> Label(cs[i])])

V1 == PyFloat(<<"1", ".", "5">>)
V2 == PyStr(<<"2">>)
V3 == PyFloat(<<"3", ".", "0">>)

\* manifest-level options
RootOptions ==
    {<<>>,
     [robot |-> PyTrue],
     [robot |-> PyFalse, parallel |-> PyInt(<<"4">>)],
     [easybuild_version |-> PyStr(<<"4", ".", "3">>), from_pr |-> PyInt(<<"7">>)]}

\* per-version entries of the mapping shape
SpecA == [versionsuffix |-> PyStr(<<"-", "s">>), robot |-> PyTrue]
             @@ ("include-labels" :> LabelList(<<"a">>))
SpecB == [parallel |-> PyInt(<<"8">>), from_pr |-> PyInt(<<"9">>)]
             @@ ("exclude-labels" :> LabelList(<<"b">>))
SpecC == [robot |-> PyFalse]

Pair(k, v) == [key |-> k, value |-> v]

\* the value of a toolchain key, versions in each shape the parser dispatches on
ValidBodies ==
    {[versions |-> PyDict(<<Pair(V1, SpecA), Pair(V2, PyNone), Pair(V3, <<>>)>>),
      include_labels |-> LabelList(<<"a", "b">>)],
     [versions |-> PyDict(<<Pair(V2, PyNone), Pair(V1, SpecB), Pair(V3, SpecC)>>)],
     [versions |-> PyList(<<V1, V2>>), include_labels |-> LabelList(<<"b">>),
      exclude_labels |-> LabelList(<<"a">>)],
     [versions |-> PyList(<<>>)],
     [versions |-> PyStr(<<"2", " ", "3">>)],
     [versions |-> V1]}

\* versions in another shape or absent, a null toolchain, a wildcard
OtherBodies ==
    {[versions |-> PyTrue],
     [versions |-> PyNone],
     [versions |-> PyInt(<<"3">>)],
     [exclude_labels |-> LabelList(<<"a">>)],
     [versions |-> PyStr(<<"2", "*">>)],
     PyNone}

SoftwareName(k) == PyStr(<<"s", ToString(k)>>)
ToolchainKey(j) == IF j = 1 THEN PyStr(<<"g", "-", "9", "-", "a">>)
                   ELSE PyStr(<<"t", ToString(j)>>)

\* the k-th software entry with n toolchains
SoftwareEntries(k, n, Bodies) ==
    {Pair(SoftwareName(k),
          [toolchains |-> PyDict([j \in 1..n |-> Pair(ToolchainKey(j), bodies[j])])]) :
        bodies \in [1..n -> Bodies]}

\* the k-th software entry without toolchains, null, or under a non-string name
OtherEntries(k) ==
    {Pair(SoftwareName(k), <<>>),
     Pair(SoftwareName(k), PyNone),
     Pair(PyInt(<<ToString(k)>>),
          [toolchains |-> PyDict(<<Pair(ToolchainKey(1), [versions |-> PyList(<<V1>>)])>>)])}

\* the software mappings with at most n toolchains, entries numbered from k;
\* an entry of OtherEntries counts as one toolchain
RECURSIVE SoftwareFrom(_, _, _, _)
SoftwareFrom(k, n, Bodies, with_other) ==
    {<<>>}
    \cup UNION {{<<e>> \o rest : e \in SoftwareEntries(k, m, Bodies),
                                  rest \in SoftwareFrom(k + 1, n - m, Bodies, with_other)} :
                m \in 1..n}
    \cup (IF with_other /\ n >= 1
          THEN {<<e>> \o rest : e \in OtherEntries(k),
                                 rest \in SoftwareFrom(k + 1, n - 1, Bodies, with_other)}
          ELSE {})

WithSoftware(root, software) ==
    [f \in DOMAIN root \cup {"software"} |->
        IF f = "software" THEN PyDict(software) ELSE root[f]]

OneToolchain(root, key, versions) ==
    WithSoftware(root,
        <<Pair(SoftwareName(1),
               [toolchains |-> PyDict(<<Pair(key, [versions |-> versions])>>)])>>)

\* one toolchain whose versions is any string or any list within the bounds
VersionsManifests ==
    {OneToolchain(root, ToolchainKey(1), PyStr(chars)) :
        root \in RootOptions, chars \in SeqsUpTo({"1", "2", " "}, MaxStrLen)}
    \cup {OneToolchain(root, ToolchainKey(1), PyList(items)) :
        root \in RootOptions, items \in SeqsUpTo({V1, V2}, MaxListLen)}

\* one toolchain under any string key within the bound
KeysManifests ==
    {OneToolchain(root, PyStr(chars), versions) :
        root \in {<<>>, [robot |-> PyTrue]},
        chars \in SeqsUpTo({"g", "-"}, MaxKeyLen),
        versions \in {PyList(<<V1>>), PyList(<<>>)}}

\* manifests of the documented format
ValidManifests ==
    {WithSoftware(root, software) :
        root \in RootOptions, software \in SoftwareFrom(1, MaxToolchains, ValidBodies, FALSE)}
    \cup VersionsManifests \cup KeysManifests

\* the above, and trees that break the format somewhere
Manifests ==
    {WithSoftware(root, software) :
        root \in RootOptions,
        software \in SoftwareFrom(1, MaxToolchains, ValidBodies \cup OtherBodies, TRUE)}
    \cup VersionsManifests \cup KeysManifests \cup RootOptions
    \cup {OneToolchain([robot |-> PyTrue], PyInt(<<"7">>), PyList(<<V1>>))}

Labels == {Label("a"), Label("b")}

\* the include and exclude labels parse_easystack is called with
CommandLines == {<<{}, {}>>, <<{Label("a")}, {Label("b")}>>}

\* the option fields SoftwareSpecs objects are built with
OptionValues(truthy) == {PyFalse, truthy}
Requests ==
    {SoftwareSpecs(SoftwareName(1), V1, PyFalse, PyStr(<<>>), PyStr(<<"t">>),
                   ev, robot, parallel, from_pr, PyFalse, PyFalse) :
        ev \in OptionValues(PyStr(<<"4", ".", "3">>)), robot \in OptionValues(PyTrue),
        parallel \in OptionValues(PyInt(<<"4">>)), from_pr \in OptionValues(PyInt(<<"7">>))}
    \cup
    {SoftwareSpecs(SoftwareName(2), V2, PyStr(<<"-", "s">>), PyStr(<<"9">>), PyStr(<<"g">>),
                   PyFalse, PyTrue, PyFalse, PyFalse, inc, exc) :
        inc \in {PyFalse, PyList(<<>>), LabelList(<<"a">>), LabelList(<<"a", "b">>)},
        exc \in {PyFalse, LabelList(<<"a">>), LabelList(<<"a", "b">>)}}

(***************************************************************************)
(* What a manifest declares, read off the tree without running the parser  *)
(***************************************************************************)
RECURSIVE Flatten(_)
Flatten(seqs) == IF seqs = <<>> THEN <<>> ELSE Head(seqs) \o Flatten(Tail(seqs))

\* the k-th smallest element of a set of numbers
Kth(S, k) == CHOOSE i \in S : Cardinality({j \in S : j < i}) = k - 1

\* the whitespace-separated tokens: the maximal runs of non-space characters
Tokens(chars) ==
    LET n == Len(chars)
        starts == {i \in 1..n : chars[i] # " " /\ (i = 1 \/ chars[i - 1] = " ")}
        ends == {i \in 1..n : chars[i] # " " /\ (i = n \/ chars[i + 1] = " ")}
    IN [k \in 1..Cardinality(starts) |-> SubSeq(chars, Kth(starts, k), Kth(ends, k))]

\* the text before and after the first hyphen
AtFirstHyphen(chars) ==
    LET hyphens == {i \in 1..Len(chars) : chars[i] = "-"}
    IN IF hyphens = {} THEN <<chars, <<>>>>
       ELSE <<SubSeq(chars, 1, Kth(hyphens, 1) - 1),
              SubSeq(chars, Kth(hyphens, 1) + 1, Len(chars))>>

\* the version entries of a versions value: version and per-version mapping
DeclaredVersions(versions) ==
    CASE versions.type = "dict" ->
            [i \in 1..Len(versions.pairs) |->
                [version |-> versions.pairs[i].key,
                 entry |-> IF versions.pairs[i].value = PyNone THEN <<>>
                           ELSE versions.pairs[i].value]]
      [] versions.type = "list" ->
            [i \in 1..Len(versions.items) |-> [version |-> versions.items[i], entry |-> <<>>]]
      [] versions.type = "str" ->
            [i \in 1..Len(Tokens(versions.text)) |->
                [version |-> PyStr(Tokens(versions.text)[i]), entry |-> <<>>]]
      [] OTHER -> <<[version |-> versions, entry |-> <<>>]>>

\* the toolchains of a tree in declaration order, each with its software
DeclaredToolchains(tree) ==
    LET software == tree["software"].pairs
        Of(k) == IF software[k].value = PyNone \/ "toolchains" \notin DOMAIN software[k].value
                 THEN <<>>
                 ELSE software[k].value["toolchains"].pairs
    IN Flatten([k \in 1..Len(software) |->
                   [j \in 1..Len(Of(k)) |->
                       [name |-> software[k].key, toolchain |-> Of(k)[j].key,
                        body |-> Of(k)[j].value]]])

\* the requests a manifest of the documented format declares, in declaration order
Declared(tree) ==
    LET toolchains == DeclaredToolchains(tree)
    IN Flatten([t \in 1..Len(toolchains) |->
                   LET versions == DeclaredVersions(toolchains[t].body["versions"])
                   IN [i \in 1..Len(versions) |->
                          [name |-> toolchains[t].name,
                           toolchain |-> toolchains[t].toolchain,
                           body |-> toolchains[t].body,
                           version |-> versions[i].version,
                           entry |-> versions[i].entry]]])

\* an option a declared request inherits from the manifest level
InheritedOption(tree, option) == Get(tree, option, PyFalse)

\* the labels a declared request inherits from its toolchain level
InheritedLabels(d, labels) == Get(d.body, labels, PyFalse)

\* xs is ys with some elements left out
RECURSIVE IsSubsequence(_, _)
IsSubsequence(xs, ys) ==
    IF xs = <<>> THEN TRUE
    ELSE IF ys = <<>> THEN FALSE
    ELSE IF Head(xs) = Head(ys) THEN IsSubsequence(Tail(xs), Tail(ys))
    ELSE IsSubsequence(xs, Tail(ys))

(***************************************************************************)
(* State                                                                   *)
(***************************************************************************)
VARIABLES
    easystack_raw,            \* the tree yaml.safe_load returned
    provided_include_labels,  \* labels given on the command line
    provided_exclude_labels,
    pc,                       \* the line parse_easystack is at, or "start" /
                              \* "client" when the methods are called directly
    software_list,            \* easystack.software_list
    print_only,               \* the flag parse returned
    easyconfig_names,         \* what compose_ec_filenames returned
    stdout,                   \* the lines printed
    exc,                      \* the exception the last call raised
    exc_name,                 \* the software its message names
    last,                     \* the last call
    before,                   \* software_list when the last call began
    called                    \* the methods called so far

vars == <<easystack_raw, provided_include_labels, provided_exclude_labels, pc,
          software_list, print_only, easyconfig_names, stdout, exc, exc_name,
          last, before, called>>

Fresh ==
    /\ print_only = Unbound
    /\ easyconfig_names = <<>>
    /\ stdout = <<>>
    /\ exc = NoExc
    /\ exc_name = Unbound
    /\ last = "none"
    /\ before = <<>>
    /\ called = {}

\* parse_easystack(filepath, include_labels, exclude_labels) is about to run, or
\* a client is about to call EasyStackParser.parse and the methods itself
InitWith(Trees) ==
    /\ easystack_raw \in Trees
    /\ \E given \in CommandLines :
           /\ provided_include_labels = given[1]
           /\ provided_exclude_labels = given[2]
    /\ pc \in {"L288", "start"}
    /\ software_list = <<>>
    /\ Fresh

Init == InitWith(Manifests)

InitValid == InitWith(ValidManifests)

\* an EasyStack built directly and filled with SoftwareSpecs objects
InitStack ==
    /\ easystack_raw = <<>>
    /\ provided_include_labels \in SUBSET Labels
    /\ provided_exclude_labels \in SUBSET Labels
    /\ pc = "client"
    /\ software_list \in SeqsUpTo(Requests, MaxRequests)
    /\ Fresh

(***************************************************************************)
(* Calls                                                                   *)
(***************************************************************************)
\* a method runs at its line of parse_easystack, or once when a client calls it
CanCall(method, line) == IF pc = "client" THEN method \notin called ELSE pc = line

\* where control is after a call: an exception leaves parse_easystack
Goto(e, line) ==
    IF pc = "client" THEN "client" ELSE IF e # NoExc THEN "raised" ELSE line

Called(method) ==
    /\ last' = method
    /\ before' = software_list
    /\ called' = called \cup {method}

\* easystack, print_only = EasyStackParser.parse(filepath)
parse_call ==
    /\ pc \in {"L288", "start"}
    /\ LET l == parse(easystack_raw)
       IN /\ software_list' = IF l.exc = NoExc THEN l.software_list ELSE <<>>
          /\ print_only' = IF l.exc = NoExc THEN l.print_only ELSE Unbound
          /\ exc' = l.exc
          /\ exc_name' = l.exc_name
          /\ pc' = IF l.exc # NoExc THEN "raised"
                   ELSE IF pc = "L288" THEN "L290" ELSE "client"
    /\ Called("parse")
    /\ UNCHANGED <<easystack_raw, provided_include_labels, provided_exclude_labels,
                   easyconfig_names, stdout>>

\* easystack.process_include_labels(include_labels)
process_include_labels_call ==
    /\ CanCall("process_include_labels", "L290")
    /\ LET r == process_include_labels(software_list, provided_include_labels)
       IN /\ software_list' = r.list
          /\ exc' = r.exc
          /\ pc' = Goto(r.exc, "L291")
    /\ Called("process_include_labels")
    /\ UNCHANGED <<easystack_raw, provided_include_labels, provided_exclude_labels,
                   print_only, easyconfig_names, stdout, exc_name>>

\* easystack.process_exclude_labels(exclude_labels)
process_exclude_labels_call ==
    /\ CanCall("process_exclude_labels", "L291")
    /\ LET r == process_exclude_labels(software_list, provided_exclude_labels)
       IN /\ software_list' = r.list
          /\ exc' = r.exc
          /\ pc' = Goto(r.exc, "L293")
    /\ Called("process_exclude_labels")
    /\ UNCHANGED <<easystack_raw, provided_include_labels, provided_exclude_labels,
                   print_only, easyconfig_names, stdout, exc_name>>

\* easyconfig_names = easystack.compose_ec_filenames()
compose_ec_filenames_call ==
    /\ CanCall("compose_ec_filenames", "L293")
    /\ easyconfig_names' = compose_ec_filenames(software_list)
    /\ exc' = NoExc
    /\ pc' = Goto(NoExc, "L295")
    /\ Called("compose_ec_filenames")
    /\ UNCHANGED <<easystack_raw, provided_include_labels, provided_exclude_labels,
                   software_list, print_only, stdout, exc_name>>

\* if print_only: easystack.print_full_commands()
print_full_commands_call ==
    /\ CanCall("print_full_commands", "L295")
    /\ IF pc = "L295" THEN Truthy(print_only) ELSE TRUE
    /\ LET r == print_full_commands(software_list)
       IN /\ stdout' = stdout \o r.out
          /\ exc' = r.exc
          /\ pc' = Goto(r.exc, "L300")
    /\ Called("print_full_commands")
    /\ UNCHANGED <<easystack_raw, provided_include_labels, provided_exclude_labels,
                   software_list, print_only, easyconfig_names, exc_name>>

\* return easyconfig_names, print_only
parse_easystack_return ==
    /\ IF pc = "L295" THEN ~Truthy(print_only) ELSE pc = "L300"
    /\ pc' = "returned"
    /\ UNCHANGED <<easystack_raw, provided_include_labels, provided_exclude_labels,
                   software_list, print_only, easyconfig_names, stdout, exc, exc_name,
                   last, before, called>>

Next ==
    \/ parse_call
    \/ process_include_labels_call
    \/ process_exclude_labels_call
    \/ compose_ec_filenames_call
    \/ print_full_commands_call
    \/ parse_easystack_return

Spec == Init /\ [][Next]_vars

SpecValid == InitValid /\ [][Next]_vars

NextStack ==
    \/ process_include_labels_call
    \/ process_exclude_labels_call
    \/ compose_ec_filenames_call
    \/ print_full_commands_call

SpecStack == InitStack /\ [][NextStack]_vars
(***************************************************************************)
(* Claims                                                                  *)
(***************************************************************************)
Parsed == last = "parse" /\ exc = NoExc

LabelsOf(v) == IF v.type = "list" THEN {v.items[i] : i \in 1..Len(v.items)} ELSE {}

IncludeKeeps(sw) ==
    LabelsOf(sw.include_labels) = {}
    \/ LabelsOf(sw.include_labels) \cap provided_include_labels # {}

ExcludeKeeps(sw) == LabelsOf(sw.exclude_labels) \cap provided_exclude_labels = {}

\* C1: process_include_labels completes without error and leaves exactly the
\* requests whose include labels are empty or unset or share a label with the
\* provided labels, in their original order.
C1_IncludeKeepsOverlapping ==
    last = "process_include_labels"
        => exc = NoExc /\ software_list = SelectSeq(before, IncludeKeeps)

\* C2: process_exclude_labels removes every request with an exclude label among
\* the provided labels and no other request.
C2_ExcludeDropsMatching ==
    last = "process_exclude_labels"
        => exc = NoExc /\ software_list = SelectSeq(before, ExcludeKeeps)

\* C3: every option of an emitted request that its own version entry does not
\* give is the one inherited from the manifest level (robot, parallel, from_pr)
\* or from its toolchain level (include and exclude labels).
C3_OptionsInherited ==
    Parsed =>
        LET D == Declared(easystack_raw)
        IN /\ Len(software_list) = Len(D)
           /\ \A i \in 1..Len(D) :
                /\ \A option \in {"robot", "parallel", "from_pr"} \ DOMAIN D[i].entry :
                       software_list[i][option] = InheritedOption(easystack_raw, option)
                /\ "include-labels" \notin DOMAIN D[i].entry
                       => software_list[i].include_labels
                              = InheritedLabels(D[i], "include_labels")
                /\ "exclude-labels" \notin DOMAIN D[i].entry
                       => software_list[i].exclude_labels
                              = InheritedLabels(D[i], "exclude_labels")

\* print_only as the manifest calls for it: some toolchain's versions is not a
\* mapping and a manifest-level option is set to a non-false value
DeclaredPrintOnly(tree) ==
    LET toolchains == DeclaredToolchains(tree)
    IN IF /\ \E t \in 1..Len(toolchains) : toolchains[t].body["versions"].type # "dict"
          /\ \E option \in {"easybuild_version", "robot", "parallel", "from_pr"} :
                NeFalse(Get(tree, option, PyFalse))
       THEN PyTrue
       ELSE PyFalse

\* C4: on every well-formed manifest parse returns, and the print_only flag it
\* returns is true when a toolchain with non-mapping versions meets a set
\* manifest-level option, and false otherwise.
C4_PrintOnlyReturned ==
    (last = "parse" /\ Declared(easystack_raw) # <<>>)
        => exc = NoExc /\ print_only = DeclaredPrintOnly(easystack_raw)

\* a software entry that names its toolchains under a string name
RegularEntry(e) ==
    e.key.type = "str" /\ e.value # PyNone /\ "toolchains" \in DOMAIN e.value

\* a toolchain whose versions is a mapping, a sequence, a string or a float,
\* without a wildcard
AdmissibleBody(body) ==
    /\ body # PyNone
    /\ "versions" \in DOMAIN body
    /\ body["versions"].type \in {"dict", "list", "str", "float"}
    /\ ~HasAsterisk(body["versions"])

\* a toolchain whose versions is absent or has none of the four shapes
MalformedBody(body) ==
    /\ body # PyNone
    /\ \/ "versions" \notin DOMAIN body
       \/ body["versions"].type \in {"bool", "NoneType"}

\* C5: a toolchain whose versions is absent or of no admissible shape makes
\* parse fail with the error that names its software, whether it comes first
\* or after toolchains with valid versions, and no request set is returned.
C5_MalformedVersionsError ==
    (/\ last = "parse"
     /\ "software" \in DOMAIN easystack_raw
     /\ \A k \in 1..Len(easystack_raw["software"].pairs) :
            RegularEntry(easystack_raw["software"].pairs[k])
     /\ \E t \in 1..Len(DeclaredToolchains(easystack_raw)) :
            /\ MalformedBody(DeclaredToolchains(easystack_raw)[t].body)
            /\ \A u \in 1..(t - 1) :
                   AdmissibleBody(DeclaredToolchains(easystack_raw)[u].body))
    => LET toolchains == DeclaredToolchains(easystack_raw)
           t == Kth({u \in 1..Len(toolchains) : MalformedBody(toolchains[u].body)}, 1)
       IN /\ exc = "EasyBuildError: error interpreting the data"
          /\ exc_name = Str(toolchains[t].name)
          /\ software_list = <<>>

\* a software entry without a toolchains sub-key
LacksToolchains(e) == e.value = PyNone \/ "toolchains" \notin DOMAIN e.value

\* a software entry the parser is to get through without an error
SoundEntry(e) ==
    /\ RegularEntry(e)
    /\ \A j \in 1..Len(e.value["toolchains"].pairs) :
           AdmissibleBody(e.value["toolchains"].pairs[j].value)

\* C6: when some software entry has no toolchains sub-key, parse fails with the
\* missing-toolchains error naming the first such entry (no earlier entry
\* failing first) and returns no request set; entries that define toolchains,
\* under a string name or not, never trigger that error.
C6_MissingToolchainsError ==
    (last = "parse" /\ "software" \in DOMAIN easystack_raw) =>
        LET software == easystack_raw["software"].pairs
            lacking == {k \in 1..Len(software) : LacksToolchains(software[k])}
        IN /\ (lacking # {} /\ \A k \in 1..(Kth(lacking, 1) - 1) : SoundEntry(software[k]))
                => /\ exc = "EasyBuildError: toolchains not defined"
                   /\ exc_name = Str(software[Kth(lacking, 1)].key)
                   /\ software_list = <<>>
           /\ lacking = {} => exc # "EasyBuildError: toolchains not defined"

\* the identity of a request: software, toolchain and version as strings
Identity(name, toolchain_name, toolchain_version, version) ==
    <<Str(name), toolchain_name, toolchain_version, Str(version)>>

RECURSIVE Joined(_)
Joined(items) ==
    IF items = <<>> THEN <<>>
    ELSE IF Len(items) = 1 THEN Str(items[1]).text
    ELSE Str(items[1]).text \o <<" ">> \o Joined(Tail(items))

\* the same versions written in the other shape: a sequence as one
\* whitespace-separated string, a string as the sequence of its tokens
OtherShape(versions) ==
    CASE versions.type = "list" -> PyStr(Joined(versions.items))
      [] versions.type = "str" -> PyList(StrItems(Tokens(versions.text)))
      [] OTHER -> versions

\* the tree with every sequence or string versions rewritten in the other shape
Reshaped(tree) ==
    LET Body(body) == [f \in DOMAIN body |->
                          IF f = "versions" THEN OtherShape(body[f]) ELSE body[f]]
        Entry(e) == [toolchains |->
                        PyDict([j \in 1..Len(e["toolchains"].pairs) |->
                                   Pair(e["toolchains"].pairs[j].key,
                                        Body(e["toolchains"].pairs[j].value))])]
    IN [f \in DOMAIN tree |->
           IF f = "software"
           THEN PyDict([k \in 1..Len(tree[f].pairs) |->
                           Pair(tree[f].pairs[k].key, Entry(tree[f].pairs[k].value))])
           ELSE tree[f]]

\* a request with its version as a string
VersionAsString(sw) == [sw EXCEPT !.version = Str(@)]

C9_SplitAtFirstHyphen ==
    last = "parse" =>
        /\ exc # "EasyBuildError: too many parts"
        /\ exc = NoExc =>
              LET D == Declared(easystack_raw)
              IN \A i \in 1..Len(software_list) :
                     /\ i <= Len(D)
                     /\ software_list[i].toolchain_name
                            = PyStr(AtFirstHyphen(Str(D[i].toolchain).text)[1])
                     /\ software_list[i].toolchain_version
                            = PyStr(AtFirstHyphen(Str(D[i].toolchain).text)[2])

\* a request was emitted under a key with two hyphens: its toolchain version
\* keeps the second one
C9_Witness ==
    /\ Parsed
    /\ Len(software_list) >= 1
    /\ LET key == DeclaredToolchains(easystack_raw)[1].toolchain.text
       IN /\ Cardinality({i \in 1..Len(key) : key[i] = "-"}) = 2
          /\ software_list[1].toolchain_version.text # <<>>
          /\ HasChar(software_list[1].toolchain_version.text, "-")

\* the line print_full_commands is to print for a request: a flag for each
\* option that is set, nothing for one that is not
FlagFor(flag, value, printed) ==
    IF Truthy(value) THEN printed = Suffix(flag, value)
    ELSE printed.text = <<>> \/ printed.text[1] # flag

\* C10: print_full_commands prints one line per request, in list order, each
\* with the flags of exactly the options set on that request, and does not
\* fail when an option is unset.
C10_OneCommandPerRequest ==
    last = "print_full_commands" =>
        /\ exc = NoExc
        /\ Len(stdout) = Len(software_list)
        /\ \A i \in 1..Len(software_list) :
               /\ stdout[i].ec_filename = ec_filename(software_list[i])
               /\ FlagFor("--robot=", software_list[i].robot, stdout[i].robot)
               /\ FlagFor("--parallel=", software_list[i].parallel, stdout[i].parallel)
               /\ FlagFor("--easybuild_version=", software_list[i].easybuild_version,
                          stdout[i].easybuild_version)
               /\ FlagFor("--from_pr=", software_list[i].from_pr, stdout[i].from_pr)
====
